---------------------------- MODULE Spec2Model ----------------------------
(***************************************************************************)
(* Model of app/python_data_recoder/subplot_record.py: the CircularBuffer  *)
(* class and the SerialPlotterWindow's serial-line handler, sample         *)
(* synchronisation, session store, export and buffer-size change, and the  *)
(* two ways the process ends (window closed, interrupt signal).            *)
(*                                                                         *)
(* A line of text is modelled by what line.split(",") yields: a sequence   *)
(* of fields, and a field by what value.split(":") yields: a sequence of   *)
(* parts.  A field contains a ":" exactly when it has more than one part.  *)
(* Floating-point values are modelled by integers (0 for 0.0, 1 for 1.0,   *)
(* ...); the only test the program makes on a value is `value != 0`.       *)
(*                                                                         *)
(* One step of receive_serial_data is one iteration of its                 *)
(* `while canReadLine()` loop (one line read and handled).  The event loop *)
(* is single-threaded; a handler invocation that drains k lines is k       *)
(* consecutive steps, and the line read is an input of the step.           *)
(***************************************************************************)
EXTENDS Integers, Sequences, FiniteSets, TLC

VARIABLES
    data_buffers,     \* self.data_buffers: one CircularBuffer per graph, 1..7
    buffer_capacity,  \* self.buffer_capacity
    current_record,   \* self.current_record: dict name -> value
    ppg_updated,      \* self.ppg_updated
    acc_updated,      \* self.acc_updated
    sample_count,     \* self.sample_count
    data_records,     \* self.data_records: dict in insertion order, <<[key, rec], ...>>
    parse_error,      \* whether the last line handled printed "Error parsing line"
    file,             \* the rows in the export destination ("out.csv")
    message,          \* the QMessageBox shown by the last event, "" when none
    nevents,          \* number of events the event loop has handled so far
    serial_open,      \* whether self.serial_port is open
    process,          \* "running", or how the process ended
    seen,             \* history: lines counted by the group they carry
    prov,             \* history: per channel, where the value in current_record stands
    cb,               \* a CircularBuffer on its own (the class in isolation)
    pushed            \* history: the values pushed into cb, in push order

vars == <<data_buffers, buffer_capacity, current_record, ppg_updated, acc_updated,
          sample_count, data_records, parse_error, file, message, nevents,
          serial_open, process, seen, prov, cb, pushed>>

(***************************************************************************)
(* Bounds of the model.                                                    *)
(***************************************************************************)
MaxEvents == 3     \* events (lines read, exports, size changes) handled in one run
MaxCapCB == 3      \* capacities 1..MaxCapCB of the buffer checked in isolation
MaxPush == 4       \* pushes into the buffer checked in isolation

(***************************************************************************)
(* class CircularBuffer                                                    *)
(***************************************************************************)
\* np.zeros(capacity), index 0, full False.  buffer[i+1] is Python's buffer[i].
CircularBuffer(capacity) ==
    [capacity |-> capacity,
     buffer   |-> [i \in 1..capacity |-> 0],
     index    |-> 0,
     full     |-> FALSE]

\* A push that never records the wrap (mutation of push).
push_never_full(b, value) ==
    [b EXCEPT !.buffer[b.index + 1] = value,
              !.index = (b.index + 1) % b.capacity]

push(b, value) ==
    LET idx == (b.index + 1) % b.capacity
    IN  [b EXCEPT !.buffer[b.index + 1] = value,
                  !.index = idx,
                  !.full = IF idx = 0 THEN TRUE ELSE b.full]

get_data(b) ==
    IF b.full
    THEN SubSeq(b.buffer, b.index + 1, b.capacity) \o SubSeq(b.buffer, 1, b.index)
    ELSE SubSeq(b.buffer, 1, b.index)

(***************************************************************************)
(* Text of a line.                                                         *)
(***************************************************************************)
\* str.strip() on the field names the model feeds.
strip(s) == CASE s = " X" -> "X"
              [] s = "C " -> "C"
              [] OTHER -> s

\* float(): the texts that parse, with their values; any other text raises
\* ValueError.
FloatValue ==
    ("0" :> 0) @@ ("1" :> 1) @@ ("2" :> 2) @@ ("5" :> 5) @@ (" 1" :> 1)

IsFloat(text) == text \in DOMAIN FloatValue

float(text) == FloatValue[text]

PPG == {"C", "R", "IR", "G"}
ACC == {"X", "Y", "Z"}
Channels == PPG \cup ACC

\* Mutation of sensor_map: the R and IR channels are routed to each other's
\* buffer.
sensor_map_swapped == ("C" :> 1) @@ ("R" :> 3) @@ ("IR" :> 2) @@ ("G" :> 4) @@
                      ("X" :> 5) @@ ("Y" :> 6) @@ ("Z" :> 7)

\* sensor_map + 1 (sequences are 1-based)
sensor_map == ("C" :> 1) @@ ("R" :> 2) @@ ("IR" :> 3) @@ ("G" :> 4) @@
              ("X" :> 5) @@ ("Y" :> 6) @@ ("Z" :> 7)


(***************************************************************************)
(* Lines the serial port delivers.  A line is [utf8, fields]: utf8 is      *)
(* whether data.decode("utf-8") succeeds, fields is line.split(",").       *)
(***************************************************************************)
F(name, text) == <<name, text>>            \* the field "name:text"

Text(fields) == [utf8 |-> TRUE, fields |-> fields]

GroupLine(names, text) == Text([i \in 1..Len(names) |-> F(names[i], text)])

PPGNames == <<"C", "R", "IR", "G">>
ACCNames == <<"X", "Y", "Z">>

\* The empty line: "".split(",") is [""], one field without a colon.
EmptyLine == Text(<< <<"">> >>)

BadUtf8Line == [utf8 |-> FALSE, fields |-> <<>>]

SingleLines == { Text(<<F(c, t)>>) : c \in Channels, t \in {"0", "2"} }

FullLines == { GroupLine(PPGNames, t) : t \in {"1", "2"} }
        \cup { GroupLine(ACCNames, t) : t \in {"1", "2"} }
        \cup { GroupLine(PPGNames \o ACCNames, t) : t \in {"1", "2"} }

OddLines ==
    { EmptyLine, BadUtf8Line,
      Text(<< <<"R">>, F("G", "2") >>),          \* "R,G:2"
      Text(<< F("Q", "0") >>),                   \* "Q:0"
      Text(<< F("Q", "1") >>),                   \* "Q:1"
      Text(<< F("C", "abc") >>),                 \* "C:abc"
      Text(<< F("C", "5"), F("R", "abc") >>),    \* "C:5,R:abc"
      Text(<< F("Z", "1"), F("Y", "abc") >>),    \* "Z:1,Y:abc"
      Text(<< F("C", "1"), F("C", "2") >>),      \* "C:1,C:2"
      Text(<< F("C", "1"), F("X", "1") >>),      \* "C:1,X:1"
      Text(<< F("X", "1"), F("Y", "1") >>),      \* "X:1,Y:1"
      GroupLine(PPGNames \o <<"X", "Y">>, "1"),  \* "C:1,R:1,IR:1,G:1,X:1,Y:1"
      Text(<< F("C", "1"), F("X", "1"), F("R", "2"), F("Y", "2") >>),
      Text(<< <<"C", "1", "2">> >>),             \* "C:1:2"
      Text(<< F(" X", " 1") >>) }                \* " X: 1"

Lines == SingleLines \cup FullLines \cup OddLines

(***************************************************************************)
(* SerialPlotterWindow.receive_serial_data: one line.                      *)
(***************************************************************************)
\* dict[key] = value on a dict modelled as a function
SetKey(d, key, value) ==
    [k \in DOMAIN d \cup {key} |-> IF k = key THEN value ELSE d[k]]

\* Mutation of SetItem: the dict is rebuilt with the one item
\* (`self.data_records = {key: value}`).
SetItem_rebuild(d, key, value) == <<[key |-> key, rec |-> value]>>

\* dict[key] = value on a dict modelled in insertion order: an existing key
\* keeps its place and takes the value, a new key is appended.
SetItem(d, key, value) ==
    IF \E i \in 1..Len(d) : d[i].key = key
    THEN [i \in 1..Len(d) |-> IF d[i].key = key THEN [key |-> key, rec |-> value] ELSE d[i]]
    ELSE Append(d, [key |-> key, rec |-> value])

\* The body of `for value in values` for one field.  st is the loop's state:
\* current_record, data_buffers, is_ppg_data, is_acc_data, and raised (float()
\* raised ValueError, which leaves the loop).
ApplyField(st, field) ==
    IF Len(field) > 1
    THEN LET sensor_name == strip(field[1])
         IN  IF ~IsFloat(field[2])
             THEN [st EXCEPT !.raised = TRUE]
             ELSE LET sensor_value == float(field[2])
                  IN  [current_record |-> SetKey(st.current_record, sensor_name, sensor_value),
                       is_ppg_data |-> st.is_ppg_data \/ sensor_name \in PPG,
                       is_acc_data |-> st.is_acc_data \/ (sensor_name \notin PPG /\ sensor_name \in ACC),
                       data_buffers |->
                           IF sensor_name \in DOMAIN sensor_map
                                /\ sensor_map[sensor_name] <= Len(st.data_buffers)
                           THEN [st.data_buffers EXCEPT ![sensor_map[sensor_name]] = push(@, sensor_value)]
                           ELSE st.data_buffers,
                       raised |-> FALSE]
    ELSE st

RECURSIVE ProcessFields(_, _)
ProcessFields(st, fields) ==
    IF fields = <<>> \/ st.raised
    THEN st
    ELSE ProcessFields(ApplyField(st, Head(fields)), Tail(fields))

\* Mutation of AllNonZero: the zero test is left out.
AllNonZero_ignored(record) == TRUE

\* all(value != 0 for value in self.current_record.values())
AllNonZero(record) == \A k \in DOMAIN record : record[k] # 0

\* Mutation of StoreRecord: the record is stored before the count is advanced,
\* so indices start at 0.
StoreRecord_index_first(s) ==
    [s EXCEPT !.sample_count = s.sample_count + 1,
              !.data_records = SetItem(s.data_records, s.sample_count, s.current_record)]

\* Mutation of StoreRecord: the count is not advanced.
StoreRecord_no_increment(s) ==
    [s EXCEPT !.data_records = SetItem(s.data_records, s.sample_count + 1, s.current_record)]

\* self.sample_count += 1
\* self.data_records[self.sample_count] = self.current_record.copy()
StoreRecord(s) ==
    [s EXCEPT !.sample_count = s.sample_count + 1,
              !.data_records = SetItem(s.data_records, s.sample_count + 1, s.current_record)]

\* Mutation of StoreWhenBothUpdated: the flags are not reset after storing.
StoreWhenBothUpdated_keep_flags(s) ==
    IF s.ppg_updated /\ s.acc_updated /\ AllNonZero(s.current_record)
    THEN StoreRecord(s)
    ELSE s

\* Mutation of StoreWhenBothUpdated: the flags are reset one level out, whenever
\* both are set, stored or not.
StoreWhenBothUpdated_reset_outer(s) ==
    IF s.ppg_updated /\ s.acc_updated
    THEN [(IF AllNonZero(s.current_record) THEN StoreRecord(s) ELSE s)
             EXCEPT !.ppg_updated = FALSE, !.acc_updated = FALSE]
    ELSE s

\* Mutation of StoreWhenBothUpdated: one set flag is enough to store.
StoreWhenBothUpdated_either(s) ==
    IF s.ppg_updated \/ s.acc_updated
    THEN IF AllNonZero(s.current_record)
         THEN [StoreRecord(s) EXCEPT !.ppg_updated = FALSE, !.acc_updated = FALSE]
         ELSE s
    ELSE s

\* "Store record only when we have both PPG and ACC updates"
StoreWhenBothUpdated(s) ==
    IF s.ppg_updated /\ s.acc_updated
    THEN IF AllNonZero(s.current_record)
         THEN [StoreRecord(s) EXCEPT !.ppg_updated = FALSE, !.acc_updated = FALSE]
         ELSE s
    ELSE s

\* The loop's state at the start of a line.
LoopStart(s) ==
    [current_record |-> s.current_record, data_buffers |-> s.data_buffers,
     is_ppg_data |-> FALSE, is_acc_data |-> FALSE, raised |-> FALSE]

\* Mutation of HandleLine: the flag update and the store are indented into the
\* `for value in values` loop, so they run after every field.
RECURSIVE FieldsWithStore(_, _)
FieldsWithStore(s, fields) ==
    IF fields = <<>>
    THEN s
    ELSE LET r == ApplyField(LoopStart(s), Head(fields))
         IN  IF r.raised
             THEN [s EXCEPT !.parse_error = TRUE]
             ELSE FieldsWithStore(
                      StoreWhenBothUpdated(
                          [s EXCEPT !.current_record = r.current_record,
                                    !.data_buffers = r.data_buffers,
                                    !.ppg_updated = s.ppg_updated \/ r.is_ppg_data,
                                    !.acc_updated = s.acc_updated \/ r.is_acc_data,
                                    !.parse_error = FALSE]),
                      Tail(fields))

HandleLine_store_in_loop(s, line) ==
    IF ~line.utf8
    THEN [s EXCEPT !.parse_error = TRUE]
    ELSE FieldsWithStore(s, line.fields)

\* Mutation of HandleLine: the flags are updated in the loop, as each field is
\* read, so a line that fails keeps the flags of the fields before the bad one.
HandleLine_flags_in_loop(s, line) ==
    IF ~line.utf8
    THEN [s EXCEPT !.parse_error = TRUE]
    ELSE LET r == ProcessFields(LoopStart(s), line.fields)
         IN  IF r.raised
             THEN [s EXCEPT !.current_record = r.current_record,
                            !.data_buffers = r.data_buffers,
                            !.ppg_updated = s.ppg_updated \/ r.is_ppg_data,
                            !.acc_updated = s.acc_updated \/ r.is_acc_data,
                            !.parse_error = TRUE]
             ELSE StoreWhenBothUpdated(
                      [s EXCEPT !.current_record = r.current_record,
                                !.data_buffers = r.data_buffers,
                                !.ppg_updated = s.ppg_updated \/ r.is_ppg_data,
                                !.acc_updated = s.acc_updated \/ r.is_acc_data,
                                !.parse_error = FALSE])

\* The try block for one line; s is the window's state.
HandleLine(s, line) ==
    IF ~line.utf8
    THEN [s EXCEPT !.parse_error = TRUE]
    ELSE LET r == ProcessFields(LoopStart(s), line.fields)
         IN  IF r.raised
             THEN [s EXCEPT !.current_record = r.current_record,
                            !.data_buffers = r.data_buffers,
                            !.parse_error = TRUE]
             ELSE StoreWhenBothUpdated(
                      [s EXCEPT !.current_record = r.current_record,
                                !.data_buffers = r.data_buffers,
                                !.ppg_updated = s.ppg_updated \/ r.is_ppg_data,
                                !.acc_updated = s.acc_updated \/ r.is_acc_data,
                                !.parse_error = FALSE])

\* The window's state as one record.
Window ==
    [current_record |-> current_record, data_buffers |-> data_buffers,
     ppg_updated |-> ppg_updated, acc_updated |-> acc_updated,
     sample_count |-> sample_count, data_records |-> data_records,
     parse_error |-> parse_error]

SetWindow(s) ==
    /\ current_record' = s.current_record
    /\ data_buffers' = s.data_buffers
    /\ ppg_updated' = s.ppg_updated
    /\ acc_updated' = s.acc_updated
    /\ sample_count' = s.sample_count
    /\ data_records' = s.data_records
    /\ parse_error' = s.parse_error

\* One more event is taken from the event loop's queue; the port and the
\* process stay as they are.
Handled ==
    /\ process = "running"
    /\ nevents < MaxEvents
    /\ nevents' = nevents + 1
    /\ UNCHANGED <<serial_open, process>>

receive_serial_data(line) ==
    /\ Handled
    /\ SetWindow(HandleLine(Window, line))
    /\ message' = ""
    /\ UNCHANGED <<buffer_capacity, file, cb, pushed>>

(***************************************************************************)
(* SerialPlotterWindow.export_data                                         *)
(***************************************************************************)
\* csv.writer's text of a float
FloatText == (0 :> "0.0") @@ (1 :> "1.0") @@ (2 :> "2.0") @@ (5 :> "5.0")

Header == <<"C", "R", "IR", "G", "X", "Y", "Z">>

\* writer.writerow([record["C"], ..., record["Z"]])
Row(record) == [i \in 1..Len(Header) |-> FloatText[record[Header[i]]]]

\* Mutation of ExportRows: the records are written newest first.
ExportRows_newest_first(records) ==
    <<Header>> \o [i \in 1..Len(records) |-> Row(records[Len(records) + 1 - i].rec)]

\* The rows a complete export writes: the header, then
\* `for record in self.data_records.values()`.
ExportRows(records) ==
    <<Header>> \o [i \in 1..Len(records) |-> Row(records[i].rec)]

\* Mutation of export_data: a successful export empties the session store and
\* restarts the sample count.
export_data_clears(filename, io, done) ==
    /\ Handled
    /\ IF Len(data_records) > 0 /\ filename # "" /\ io = "ok"
       THEN /\ file' = ExportRows(data_records)
            /\ message' = "Export Success"
            /\ data_records' = <<>>
            /\ sample_count' = 0
       ELSE /\ file' = IF Len(data_records) > 0 /\ filename # "" /\ io = "write_fails"
                       THEN SubSeq(ExportRows(data_records), 1, done)
                       ELSE file
            /\ message' = IF Len(data_records) = 0 THEN "No data to export."
                          ELSE IF filename = "" THEN "Invalid filename."
                          ELSE "Failed to export data."
            /\ UNCHANGED <<data_records, sample_count>>
    /\ UNCHANGED <<data_buffers, buffer_capacity, current_record, ppg_updated,
                   acc_updated, parse_error, seen, prov, cb, pushed>>

\* Mutation of export_data: the store is not tested for emptiness, so an
\* export of an empty store writes the header alone and reports success.
export_data_no_empty_check(filename, io, done) ==
    /\ Handled
    /\ IF filename # ""
       THEN CASE io = "ok" ->
                   /\ file' = ExportRows(data_records)
                   /\ message' = "Export Success"
              [] io = "open_fails" ->
                   /\ file' = file
                   /\ message' = "Failed to export data."
              [] OTHER ->
                   /\ file' = SubSeq(ExportRows(data_records), 1, done)
                   /\ message' = "Failed to export data."
       ELSE /\ file' = file
            /\ message' = "Invalid filename."
    /\ UNCHANGED <<data_buffers, buffer_capacity, current_record, ppg_updated,
                   acc_updated, sample_count, data_records, parse_error,
                   seen, prov, cb, pushed>>

\* filename is what QFileDialog.getSaveFileName returns ("" when cancelled);
\* io is how the file system answers: "ok", "open_fails" (open() raises, the
\* destination is untouched) or "write_fails" (a write raises after the first
\* `done` rows, the destination keeps them).
export_data(filename, io, done) ==
    /\ Handled
    /\ IF Len(data_records) > 0
       THEN IF filename # ""
            THEN CASE io = "ok" ->
                        /\ file' = ExportRows(data_records)
                        /\ message' = "Export Success"
                   [] io = "open_fails" ->
                        /\ file' = file
                        /\ message' = "Failed to export data."
                   [] OTHER ->
                        /\ file' = SubSeq(ExportRows(data_records), 1, done)
                        /\ message' = "Failed to export data."
            ELSE /\ file' = file
                 /\ message' = "Invalid filename."
       ELSE /\ file' = file
            /\ message' = "No data to export."
    /\ UNCHANGED <<data_buffers, buffer_capacity, current_record, ppg_updated,
                   acc_updated, sample_count, data_records, parse_error,
                   seen, prov, cb, pushed>>

\* self.buffer_sizes, scaled down from [1000, 3000, 5000, 7000, 10000] so that
\* a buffer fills and wraps within a few lines.
buffer_sizes == <<1, 2>>

(***************************************************************************)
(* SerialPlotterWindow.change_buffer_size                                  *)
(***************************************************************************)
\* Mutation of change_buffer_size: the capacity is changed in the buffers that
\* exist; their store, cursor and wrapped flag are left as they are.
change_buffer_size_in_place(index) ==
    /\ Handled
    /\ message' = ""
    /\ buffer_capacity' = buffer_sizes[index + 1]
    /\ data_buffers' =
           [i \in 1..Len(data_buffers) |->
               [data_buffers[i] EXCEPT
                   !.capacity = buffer_sizes[index + 1],
                   !.buffer = [j \in 1..buffer_sizes[index + 1] |->
                                  IF j <= Len(@) THEN @[j] ELSE 0],
                   !.index = data_buffers[i].index % buffer_sizes[index + 1]]]
    /\ UNCHANGED <<current_record, ppg_updated, acc_updated, sample_count,
                   data_records, parse_error, file, seen, prov, cb, pushed>>

change_buffer_size(index) ==
    /\ Handled
    /\ message' = ""
    /\ buffer_capacity' = buffer_sizes[index + 1]
    /\ data_buffers' = [i \in 1..Len(data_buffers) |-> CircularBuffer(buffer_sizes[index + 1])]
    /\ UNCHANGED <<current_record, ppg_updated, acc_updated, sample_count,
                   data_records, parse_error, file, seen, prov, cb, pushed>>

\* SerialPlotterWindow.__init__, the seven add_graph calls of __main__ and the
\* serial port opened: the state in which app.exec_() starts.
InitWindow ==
    /\ buffer_capacity = buffer_sizes[1]
    /\ data_buffers = [i \in 1..7 |-> CircularBuffer(buffer_sizes[1])]
    /\ current_record = [c \in Channels |-> 0]
    /\ ppg_updated = FALSE
    /\ acc_updated = FALSE
    /\ sample_count = 0
    /\ data_records = <<>>
    /\ parse_error = FALSE
    /\ file = <<>>
    /\ message = ""
    /\ nevents = 0
    /\ serial_open = TRUE
    /\ process = "running"
    /\ seen = [ppg |-> 0, acc |-> 0, ppg_at_store |-> 0, acc_at_store |-> 0]
    /\ prov = [c \in Channels |-> "init"]

Init ==
    /\ InitWindow
    /\ cb = CircularBuffer(buffer_sizes[1])
    /\ pushed = <<>>

(***************************************************************************)
(* How the process ends.                                                   *)
(***************************************************************************)
\* SerialPlotterWindow.closeEvent: the port is closed and the event accepted;
\* the last window closes, app.exec_() returns and sys.exit() ends the process.
closeEvent ==
    /\ process = "running"
    /\ serial_open' = FALSE
    /\ process' = "window_closed"
    /\ UNCHANGED <<data_buffers, buffer_capacity, current_record, ppg_updated,
                   acc_updated, sample_count, data_records, parse_error, file,
                   message, nevents, seen, prov, cb, pushed>>

\* keyboard_interrupt_handler, installed for SIGINT: sys.exit(0).
keyboard_interrupt_handler ==
    /\ process = "running"
    /\ process' = "interrupted"
    /\ UNCHANGED <<data_buffers, buffer_capacity, current_record, ppg_updated,
                   acc_updated, sample_count, data_records, parse_error, file,
                   message, nevents, serial_open, seen, prov, cb, pushed>>

Next ==
    \/ \E line \in Lines : receive_serial_data(line) /\ UNCHANGED <<prov, seen>>
    \/ \E index \in 0..(Len(buffer_sizes) - 1) : change_buffer_size(index)
    \/ \E filename \in {"", "out.csv"}, io \in {"ok", "open_fails", "write_fails"},
          done \in 0..Len(data_records) :
            export_data(filename, io, done)
    \/ closeEvent
    \/ keyboard_interrupt_handler

Spec == Init /\ [][Next]_vars


(***************************************************************************)
(* The CircularBuffer class in isolation: a fresh buffer of any capacity   *)
(* 1..MaxCapCB, and up to MaxPush pushes; pushed records what was pushed.  *)
(***************************************************************************)
PushValues == {0, 1, 2}

InitCB ==
    /\ InitWindow
    /\ cb \in { CircularBuffer(N) : N \in 1..MaxCapCB }
    /\ pushed = <<>>

cb_push(value) ==
    /\ Len(pushed) < MaxPush
    /\ cb' = push(cb, value)
    /\ pushed' = Append(pushed, value)
    /\ UNCHANGED <<data_buffers, buffer_capacity, current_record, ppg_updated,
                   acc_updated, sample_count, data_records, parse_error, file,
                   message, nevents, serial_open, process, seen, prov>>

NextCB == \E value \in PushValues : cb_push(value)

SpecCB == InitCB /\ [][NextCB]_vars

\* The last n elements of s (all of s when it has at most n).
LastN(s, n) == IF Len(s) <= n THEN s ELSE SubSeq(s, Len(s) - n + 1, Len(s))

\* C1: after L pushes on a fresh CircularBuffer(N), get_data() is the L pushed
\* values in push order when L <= N, and the last N pushed values, oldest
\* first, when L > N (the boundary L = N included).
C1_GetDataIsLastPushed == get_data(cb) = LastN(pushed, cb.capacity)

\* C1 witness: a buffer of capacity >= 2 that has wrapped, its cursor inside
\* the store, holding values that differ.
C1_Witness ==
    /\ cb.capacity >= 2
    /\ Len(pushed) > cb.capacity
    /\ cb.index # 0
    /\ Head(LastN(pushed, cb.capacity)) # pushed[Len(pushed)]

(***************************************************************************)
(* What a line carries, read off its text.                                 *)
(***************************************************************************)
\* The fields of a line that contain a ":".
ColonFields(line) == { i \in 1..Len(line.fields) : Len(line.fields[i]) > 1 }

\* A colon-bearing field has a non-numeric value.
Malformed(line) ==
    line.utf8 /\ \E i \in ColonFields(line) : line.fields[i][2] \notin DOMAIN FloatValue

\* The line decodes and every colon-bearing field has a numeric value.
WellFormed(line) ==
    line.utf8 /\ \A i \in ColonFields(line) : line.fields[i][2] \in DOMAIN FloatValue

\* The names of the line's colon-bearing fields.
Names(line) == { strip(line.fields[i][1]) : i \in ColonFields(line) }

\* The step that handles `line` in the running window.
LineStep(line) == receive_serial_data(line) /\ UNCHANGED <<prov, seen>>

\* A record was stored by the step.
Stored == sample_count' # sample_count \/ data_records' # data_records

(***************************************************************************)
(* C2                                                                      *)
(***************************************************************************)
\* C2: a line with a colon-bearing field of non-numeric value is discarded as a
\* whole: handling it leaves current_record and every channel's CircularBuffer
\* as they were, also for the well-formed fields before the malformed one.
C2_MalformedLineChangesNothing ==
    [][\A line \in Lines :
          (Malformed(line) /\ LineStep(line))
              => (current_record' = current_record /\ data_buffers' = data_buffers)]_vars

(***************************************************************************)
(* C3                                                                      *)
(***************************************************************************)
\* C3: when a successfully parsed line has been applied and both flags are set
\* and every value of current_record is non-zero, exactly one record is
\* appended under index sample_count + 1, it equals current_record at that
\* moment, and both flags are false afterwards.
C3_StoreWhenBothUpdatedAndNonZero ==
    [][\A line \in Lines :
          ( /\ \A k \in DOMAIN current_record' : current_record'[k] # 0
            /\ WellFormed(line)
            /\ ppg_updated \/ Names(line) \cap PPG # {}
            /\ acc_updated \/ Names(line) \cap ACC # {}
            /\ LineStep(line) )
          => ( /\ sample_count' = sample_count + 1
               /\ Len(data_records') = Len(data_records) + 1
               /\ SubSeq(data_records', 1, Len(data_records)) = data_records
               /\ data_records'[Len(data_records')].key = sample_count + 1
               /\ \A c \in Channels :
                     data_records'[Len(data_records')].rec[c] = current_record'[c]
               /\ ~ppg_updated'
               /\ ~acc_updated' )]_vars

\* C3 witness: a record has been stored, it is the current record, and both
\* flags are down.
C3_Witness ==
    /\ sample_count = 1
    /\ Len(data_records) = 1
    /\ data_records[1].rec = current_record
    /\ ~ppg_updated /\ ~acc_updated

(***************************************************************************)
(* C4: the two-line scenario from the initial state.                       *)
(***************************************************************************)
NonZeroTexts == {"1", "2"}

PPGValueLines ==
    { Text(<<F("C", a), F("R", b), F("IR", c), F("G", d)>>) :
        a \in NonZeroTexts, b \in NonZeroTexts, c \in NonZeroTexts, d \in NonZeroTexts }

ACCValueLines ==
    { Text(<<F("X", a), F("Y", b), F("Z", c)>>) :
        a \in NonZeroTexts, b \in NonZeroTexts, c \in NonZeroTexts }

NextTwoLines ==
    \/ nevents = 0 /\ \E line \in PPGValueLines : LineStep(line)
    \/ nevents = 1 /\ \E line \in ACCValueLines : LineStep(line)

SpecTwoLines == Init /\ [][NextTwoLines]_vars

\* The value the line gives for channel c.
Given(line, c) ==
    LET i == CHOOSE j \in ColonFields(line) : line.fields[j][1] = c
    IN  FloatValue[line.fields[i][2]]

\* C4: from the initial state, a line with non-zero C, R, IR, G stores nothing,
\* and a following line with non-zero X, Y, Z stores exactly one record, with
\* index 1 and the seven values the two lines gave.
C4_TwoLinesOneRecord ==
    [][ /\ \A line \in PPGValueLines :
              (nevents = 0 /\ LineStep(line))
                  => ( /\ data_records' = <<>>
                       /\ sample_count' = 0
                       /\ \A c \in PPG : current_record'[c] = Given(line, c) )
        /\ \A line \in ACCValueLines :
              (nevents = 1 /\ LineStep(line))
                  => ( /\ sample_count' = 1
                       /\ Len(data_records') = 1
                       /\ data_records'[1].key = 1
                       /\ DOMAIN data_records'[1].rec = Channels
                       /\ \A c \in PPG : data_records'[1].rec[c] = current_record[c]
                       /\ \A c \in ACC : data_records'[1].rec[c] = Given(line, c) )
      ]_vars

\* C4 witness: both lines handled, the record holds values that differ.
C4_Witness ==
    /\ nevents = 2
    /\ Len(data_records) = 1
    /\ data_records[1].rec["C"] = 1
    /\ data_records[1].rec["G"] = 2
    /\ data_records[1].rec["X"] = 2
    /\ data_records[1].rec["Z"] = 1

(***************************************************************************)
(* C5                                                                      *)
(***************************************************************************)
\* C5: while some channel's value in current_record is 0 after an event, the
\* event stores no record, both flags set or not.
C5_NoStoreWhileZero ==
    [][(\E c \in Channels : current_record'[c] = 0) => ~Stored]_vars

\* C5 witness: both flags are set and a channel is 0, after an earlier record.
C5_Witness ==
    /\ ppg_updated /\ acc_updated
    /\ \E c \in Channels : current_record[c] = 0
    /\ sample_count = 1

(***************************************************************************)
(* C6                                                                      *)
(***************************************************************************)
\* C6: a flag goes from true to false only at a store; so both flags stay set
\* across lines that store nothing; and with both flags set, the first
\* successfully parsed line after which every value is non-zero stores.
C6_FlagsResetOnlyAtStore ==
    [][ /\ ((ppg_updated /\ ~ppg_updated') \/ (acc_updated /\ ~acc_updated'))
              => sample_count' = sample_count + 1
        /\ (ppg_updated /\ acc_updated /\ sample_count' = sample_count)
              => (ppg_updated' /\ acc_updated')
        /\ \A line \in Lines :
              ( /\ ppg_updated /\ acc_updated
                /\ \A k \in DOMAIN current_record' : current_record'[k] # 0
                /\ WellFormed(line)
                /\ LineStep(line) )
              => ( /\ sample_count' = sample_count + 1
                   /\ Len(data_records') = Len(data_records) + 1 )
      ]_vars

\* C6 witness: the one record holds Z = 2 beside six values 1, which takes the
\* three lines "Z:2", "X:1,Y:1" and PPG at 1: the store was deferred to the
\* last of them.
C6_Witness ==
    /\ nevents = 3
    /\ sample_count = 1
    /\ Len(data_records) = 1
    /\ data_records[1].rec = [c \in Channels |-> IF c = "Z" THEN 2 ELSE 1]
    /\ ~ppg_updated /\ ~acc_updated

(***************************************************************************)
(* C7                                                                      *)
(***************************************************************************)
\* C7: handling one line appends at most one record, whatever fields it has.
C7_AtMostOneRecordPerLine ==
    [][ /\ Len(data_records') <= Len(data_records) + 1
        /\ sample_count' <= sample_count + 1 ]_vars

\* C7 witness: a second record was stored by a line, each from one event.
C7_Witness ==
    /\ nevents = 2
    /\ sample_count = 2
    /\ Len(data_records) = 2

(***************************************************************************)
(* C8                                                                      *)
(***************************************************************************)
\* C8: the keys of data_records are exactly 1..sample_count, in insertion
\* order, with no gap and no reuse.
C8_KeysAreOneToCount ==
    /\ Len(data_records) = sample_count
    /\ \A i \in 1..Len(data_records) : data_records[i].key = i

\* C8 witness: three records stored.
C8_Witness == sample_count = 3 /\ Len(data_records) = 3

(***************************************************************************)
(* C9: lines that parse and carry non-zero values only, with the history   *)
(* prov: per channel, "init" (never received), "fresh" (received, in no    *)
(* stored record yet) or "used" (in a stored record).                      *)
(***************************************************************************)
NonZeroLines ==
    { line \in Lines :
        /\ WellFormed(line)
        /\ \A i \in ColonFields(line) : FloatValue[line.fields[i][2]] # 0 }

\* The channels the line gives a value for.
Written(line) == Names(line) \cap Channels

ProvAfter(line, stored) ==
    [c \in Channels |->
        IF stored THEN "used"
        ELSE IF c \in Written(line) THEN "fresh"
        ELSE prov[c]]

TrackedLineStep(line) ==
    /\ receive_serial_data(line)
    /\ UNCHANGED seen
    /\ prov' = ProvAfter(line, HandleLine(Window, line).sample_count # sample_count)

NextNonZero == \E line \in NonZeroLines : TrackedLineStep(line)

SpecNonZero == Init /\ [][NextNonZero]_vars

\* C9: no loss (a line does not overwrite a channel's value that was received
\* by an earlier line and is in no stored record yet) and no duplication (a
\* record is not stored with a channel's value that an earlier record holds).
C9_NoLossNoDuplication ==
    [][\A line \in NonZeroLines :
          TrackedLineStep(line)
            => ( /\ \A c \in Written(line) : prov[c] # "fresh"
                 /\ sample_count' # sample_count
                       => \A c \in Channels : prov[c] = "used" => c \in Written(line) )
      ]_vars

(***************************************************************************)
(* C10                                                                     *)
(***************************************************************************)
\* C10: a stored record never changes: every event leaves each entry of
\* data_records as it was.
C10_StoredRecordsNeverChange ==
    [][\A i \in 1..Len(data_records) :
          /\ i <= Len(data_records')
          /\ data_records'[i] = data_records[i]]_vars

\* C10 witness: two records stored, and current_record has since moved away
\* from both.
C10_Witness ==
    /\ Len(data_records) = 2
    /\ data_records[1].rec # data_records[2].rec
    /\ data_records[2].rec # current_record

(***************************************************************************)
(* C11                                                                     *)
(***************************************************************************)
\* C11: current_record, and every stored record, holds exactly the seven
\* channels C, R, IR, G, X, Y, Z and no other key, whatever lines were
\* received.
C11_ExactlySevenChannels ==
    /\ DOMAIN current_record = Channels
    /\ \A i \in 1..Len(data_records) : DOMAIN data_records[i].rec = Channels

(***************************************************************************)
(* C12                                                                     *)
(***************************************************************************)
\* The channel each graph shows, in the order the graphs (and their buffers)
\* are created: Count, Red, IR, Green, Acc X, Acc Y, Acc Z.
Graphs == <<"C", "R", "IR", "G", "X", "Y", "Z">>

\* The position of the channel's own graph and buffer.
GraphOf(c) == CHOOSE i \in 1..Len(Graphs) : Graphs[i] = c

\* The fields of the line named c, in field order, and their values.
FieldsNamed(line, c) ==
    SelectSeq(line.fields, LAMBDA f : Len(f) > 1 /\ strip(f[1]) = c)

ValuesFor(line, c) ==
    [i \in 1..Len(FieldsNamed(line, c)) |-> FloatValue[FieldsNamed(line, c)[i][2]]]

\* Every channel's buffer is empty: cursor 0 and not wrapped.
AllBuffersEmpty ==
    \A i \in 1..Len(data_buffers) : data_buffers[i].index = 0 /\ ~data_buffers[i].full

\* The lines that parse, and for each of them the values it carries for each
\* channel, in field order.
WellFormedLines == {line \in Lines : WellFormed(line)}

Pushes == [line \in WellFormedLines |-> [c \in Channels |-> ValuesFor(line, c)]]

\* The lines of the routing scenario: single and repeated channels, channels
\* of both groups interleaved, a name outside the seven channels, padded
\* text, a field without a colon, the empty line and a line that fails after
\* its first field.
RouteLines ==
    { Text(<< F("C", "2") >>),
      Text(<< F("C", "1"), F("C", "2") >>),
      Text(<< F("C", "1"), F("X", "1"), F("R", "2"), F("Y", "2") >>),
      Text(<< F("Q", "1") >>),
      Text(<< F(" X", " 1") >>),
      Text(<< <<"R">>, F("G", "2") >>),
      Text(<< F("Z", "1"), F("Y", "abc") >>),
      GroupLine(ACCNames, "2"),
      GroupLine(PPGNames \o ACCNames, "1"),
      EmptyLine }

NextRoute ==
    \/ \E line \in RouteLines : LineStep(line)
    \/ \E index \in 0..(Len(buffer_sizes) - 1) : change_buffer_size(index)

SpecRoute == Init /\ [][NextRoute]_vars

\* C12: after change_buffer_size every channel's buffer is empty, has the
\* selected capacity, its cursor at 0 and its wrapped flag cleared, whatever
\* it held before; and from empty buffers a line leaves in each buffer only
\* the values it pushed.
C12_SizeChangeEmptiesBuffers ==
    [][ /\ \A index \in 0..(Len(buffer_sizes) - 1) :
              change_buffer_size(index)
                  => ( /\ Len(data_buffers') = 7
                       /\ \A i \in 1..7 :
                             /\ get_data(data_buffers'[i]) = <<>>
                             /\ data_buffers'[i].capacity = buffer_sizes[index + 1]
                             /\ Len(data_buffers'[i].buffer) = buffer_sizes[index + 1]
                             /\ data_buffers'[i].index = 0
                             /\ ~data_buffers'[i].full )
        /\ \A line \in RouteLines \cap WellFormedLines :
              (AllBuffersEmpty /\ LineStep(line))
                  => \A c \in Channels :
                        get_data(data_buffers'[GraphOf(c)])
                            = LastN(Pushes[line][c], buffer_capacity)
      ]_vars

\* C12 witness: the first record holds C = 1, so 1.0 was pushed into the C
\* buffer; the capacity is now 2 and the C buffer holds 2.0 alone, so the
\* size was changed in between and only the later push is left.
C12_Witness ==
    /\ buffer_capacity = 2
    /\ Len(data_records) >= 1
    /\ data_records[1].rec["C"] = 1
    /\ get_data(data_buffers[1]) = <<2>>

(***************************************************************************)
(* C13                                                                     *)
(***************************************************************************)
\* The inputs of an export: the dialog's answer, the file system's answer and
\* the number of rows written before a failing write.
ExportInputs ==
    {"", "out.csv"} \X {"ok", "open_fails", "write_fails"} \X (0..Len(data_records))

\* C13: change_buffer_size, and export_data in every outcome (success, empty
\* store, cancelled dialog, I/O failure), leave data_records, sample_count,
\* current_record and the two group flags unchanged.
C13_SizeChangeAndExportKeepSession ==
    [][ ( \/ \E index \in 0..(Len(buffer_sizes) - 1) : change_buffer_size(index)
          \/ \E e \in ExportInputs : export_data(e[1], e[2], e[3]) )
            => UNCHANGED <<data_records, sample_count, current_record,
                           ppg_updated, acc_updated>>
      ]_vars

\* C13 witness: a record is stored, a group flag is set by a later line, and
\* an export has then succeeded with the record still in the store.
C13_Witness ==
    /\ message = "Export Success"
    /\ Len(data_records) = 1
    /\ sample_count = 1
    /\ ppg_updated

(***************************************************************************)
(* C14                                                                     *)
(***************************************************************************)
\* C14: a decodable line in which no field contains a ':' (the empty line
\* included) reports no error and changes nothing: current_record, both
\* flags, every buffer, sample_count and data_records are the same after the
\* line as before it, in every reachable state.
C14_ColonlessLineChangesNothing ==
    [][ \A line \in Lines :
           (line.utf8 /\ ColonFields(line) = {} /\ LineStep(line))
               => ( /\ ~parse_error'
                    /\ UNCHANGED <<current_record, ppg_updated, acc_updated,
                                   data_buffers, sample_count, data_records>> )
      ]_vars

(***************************************************************************)
(* C15                                                                     *)
(***************************************************************************)
\* C15: for a line that parses, each field named after one of the seven
\* channels pushes its value once, in field order, into that channel's own
\* buffer; the buffers of the channels the line does not name are unchanged;
\* a field of any other name pushes nowhere (there are seven buffers before
\* and after, each accounted for by its own channel's fields).
C15_FieldsPushIntoOwnBuffer ==
    [][ \A line \in RouteLines \cap WellFormedLines :
           LineStep(line)
               => ( /\ Len(data_buffers') = 7
                    /\ \A c \in Channels :
                          /\ get_data(data_buffers'[GraphOf(c)])
                                = LastN(get_data(data_buffers[GraphOf(c)])
                                            \o Pushes[line][c],
                                        buffer_capacity)
                          /\ Pushes[line][c] = <<>>
                                => data_buffers'[GraphOf(c)]
                                       = data_buffers[GraphOf(c)] )
      ]_vars

\* C15 witness: with capacity 2 one line pushed 1.0 then 2.0 into the C buffer
\* and nothing into the others.
C15_Witness ==
    /\ buffer_capacity = 2
    /\ get_data(data_buffers[GraphOf("C")]) = <<1, 2>>
    /\ \A c \in Channels \ {"C"} : get_data(data_buffers[GraphOf(c)]) = <<>>
    /\ nevents = 2

(***************************************************************************)
(* C16                                                                     *)
(***************************************************************************)
\* C16: an export requested while data_records is empty reports the error
\* "No data to export." and leaves the destination untouched, whatever the
\* dialog and the file system would have answered, and whatever lines were
\* received before.
C16_EmptyStoreExportWritesNothing ==
    [][ \A e \in ExportInputs :
           (Len(data_records) = 0 /\ export_data(e[1], e[2], e[3]))
               => (message' = "No data to export." /\ file' = file)
      ]_vars

\* C16 witness: lines were received and pushed into the buffers, no record
\* was stored, and the export was refused with nothing written.
C16_Witness ==
    /\ message = "No data to export."
    /\ sample_count = 0
    /\ data_records = <<>>
    /\ get_data(data_buffers[GraphOf("C")]) # <<>>
    /\ get_data(data_buffers[GraphOf("X")]) # <<>>
    /\ file = <<>>

(***************************************************************************)
(* C17                                                                     *)
(***************************************************************************)
\* The stored record of sample index i.
RecordOf(i) ==
    data_records[CHOOSE j \in 1..Len(data_records) : data_records[j].key = i].rec

\* C17: after a successful export of n >= 1 records the file holds exactly
\* n + 1 rows: the header C,R,IR,G,X,Y,Z, then for i = 1..n the seven values
\* of the record of sample index i in the order C, R, IR, G, X, Y, Z.
C17_ExportWritesHeaderAndRowsInOrder ==
    message = "Export Success"
        => /\ Len(data_records) >= 1
           /\ Len(file) = Len(data_records) + 1
           /\ file[1] = <<"C", "R", "IR", "G", "X", "Y", "Z">>
           /\ \A i \in 1..Len(data_records) :
                 /\ \E j \in 1..Len(data_records) : data_records[j].key = i
                 /\ file[i + 1] = << FloatText[RecordOf(i)["C"]],
                                     FloatText[RecordOf(i)["R"]],
                                     FloatText[RecordOf(i)["IR"]],
                                     FloatText[RecordOf(i)["G"]],
                                     FloatText[RecordOf(i)["X"]],
                                     FloatText[RecordOf(i)["Y"]],
                                     FloatText[RecordOf(i)["Z"]] >>

\* C17 witness: two different records were stored and exported, three rows
\* written, the older record first.
C17_Witness ==
    /\ message = "Export Success"
    /\ Len(data_records) = 2
    /\ Len(file) = 3
    /\ file[2] # file[3]
    /\ file[2][1] = FloatText[RecordOf(1)["C"]]

(***************************************************************************)
(* C18                                                                     *)
(***************************************************************************)
\* C18: when the process has exited through the interrupt handler, the
\* serial port opened at startup has been closed.
C18_InterruptClosesPort ==
    process = "interrupted" => ~serial_open

(***************************************************************************)
(* C19                                                                     *)
(***************************************************************************)
MalformedLines == {line \in Lines : Malformed(line)}

\* C19: a line that fails parsing sets neither flag and stores nothing: both
\* flags, sample_count and data_records are after it what they were before,
\* even when fields before the bad one belong to a group; the error is
\* reported, the process keeps running, and a line that parses after a failed
\* one is handled without error.
C19_FailingLineSetsNoFlagAndStoresNothing ==
    [][ /\ \A line \in MalformedLines :
              (message' = "" /\ buffer_capacity' = buffer_capacity /\ LineStep(line))
                  => ( /\ UNCHANGED <<ppg_updated, acc_updated, sample_count,
                                      data_records>>
                       /\ parse_error'
                       /\ process' = "running" )
        /\ \A line \in RouteLines \cap WellFormedLines :
              (parse_error /\ LineStep(line)) => ~parse_error'
      ]_vars

\* C19 witness: "C:5,R:abc" failed after its PPG field C was applied, and
\* the PPG flag is not set.
C19_Witness ==
    /\ parse_error
    /\ current_record["C"] = 5
    /\ ~ppg_updated
    /\ ~acc_updated
    /\ sample_count = 0

(***************************************************************************)
(* C20: the lines are counted as they are handled.                         *)
(***************************************************************************)
CountLines ==
    { GroupLine(PPGNames, "1"),
      GroupLine(ACCNames, "1"),
      GroupLine(PPGNames \o ACCNames, "1"),
      GroupLine(PPGNames \o <<"X", "Y">>, "1"),
      Text(<< F("C", "1"), F("X", "1") >>),
      Text(<< F("Z", "2") >>),
      Text(<< F("C", "0") >>),
      Text(<< F("Q", "1") >>),
      Text(<< F("C", "5"), F("R", "abc") >>),
      Text(<< F("Z", "1"), F("Y", "abc") >>),
      EmptyLine,
      BadUtf8Line }

\* 1 when the line parses and one of its fields is named in `group`, else 0.
Carries(line, group) ==
    IF WellFormed(line) /\ Names(line) \cap group # {} THEN 1 ELSE 0

\* seen.ppg, seen.acc: the parsed lines handled so far that carry a PPG (an
\* ACC) field, this line included; seen.ppg_at_store, seen.acc_at_store:
\* those counts as they were when the last record was stored.
SeenAfter(line, stored) ==
    [ppg |-> seen.ppg + Carries(line, PPG),
     acc |-> seen.acc + Carries(line, ACC),
     ppg_at_store |-> IF stored THEN seen.ppg + Carries(line, PPG)
                      ELSE seen.ppg_at_store,
     acc_at_store |-> IF stored THEN seen.acc + Carries(line, ACC)
                      ELSE seen.acc_at_store]

CountedLineStep(line) ==
    /\ receive_serial_data(line)
    /\ UNCHANGED prov
    /\ seen' = SeenAfter(line, HandleLine(Window, line).sample_count # sample_count)

NextCount == \E line \in CountLines : CountedLineStep(line)

SpecCount == Init /\ [][NextCount]_vars

\* C20: when a record is stored, at least one parsed line with a PPG field
\* and at least one with an ACC field have been handled since the previous
\* record was stored (since the start, for the first record); and the number
\* of records never exceeds the number of parsed lines with a PPG field, nor
\* the number with an ACC field.
C20_RecordsBoundedByGroupLines ==
    [][ /\ sample_count' # sample_count
            => ( /\ seen'.ppg > seen.ppg_at_store
                 /\ seen'.acc > seen.acc_at_store )
        /\ Len(data_records') <= seen'.ppg
        /\ Len(data_records') <= seen'.acc
        /\ sample_count' <= seen'.ppg
        /\ sample_count' <= seen'.acc
      ]_vars

\* C20 witness: two records are stored after exactly two parsed lines with a
\* PPG field and two with an ACC field, a third line having failed.
C20_Witness ==
    /\ Len(data_records) = 2
    /\ seen.ppg = 2
    /\ seen.acc = 2
    /\ nevents = 3

=============================================================================
